---- MODULE Spec2Model ----
(***************************************************************************)
(* A model of the subresource-integrity Plugin class (src/unnamed/part_000):*)
(* the integrity registry (assetIntegrity / inverseAssetIntegrity), the    *)
(* placeholder bookkeeping (hashByChunkId), the asset patcher              *)
(* (processAssets, processChunk, processChunkAssets, replaceAsset) and the *)
(* tag injector (handleHwpPluginArgs, handleHwpBodyTags, processTag).      *)
(*                                                                         *)
(* Byte contents are sequences of tokens.  A token is a literal, the       *)
(* hot-update marker, a placeholder of a chunk, or an integrity string;    *)
(* the integrity string of a content is the token that wraps exactly that  *)
(* content, so two contents have the same integrity iff they are equal.    *)
(* Paths are records of segments and a query suffix.                       *)
(***************************************************************************)
EXTENDS Integers, Sequences, FiniteSets, TLC

VARIABLES
    chunks,                 \* compilation.chunks, in iteration order
    assetKeys,              \* Object.keys(compilation.assets), in order
    assets,                 \* compilation.assets: key -> Source
    assetsInfo,             \* compilation.assetsInfo: key -> asset info
    hashLoading,            \* options.hashLoading: "eager" | "lazy"
    crossOriginLoading,     \* output.crossOriginLoading ("" when unset)
    disk,                   \* files below compiler.outputPath: path -> bytes
    tags,                   \* headTags.concat(bodyTags)
    assetIntegrity,         \* Plugin.assetIntegrity
    inverseAssetIntegrity,  \* Plugin.inverseAssetIntegrity
    hwpPublicPath,          \* Plugin.hwpPublicPath
    sortedSccChunks,        \* Plugin.sortedSccChunks
    hashByChunkId,          \* Plugin.hashByChunkId
    realContentHash,        \* optimization.realContentHash
    hwpAssets,              \* the HTML plugin's assets: publicPath, js, css
    rehashes,               \* number of updateHash calls so far
    warnings,               \* messages given to reporter.warnOnce
    errors,                 \* messages given to reporter.errorOnce
    raised,                 \* the error the last callback raised ("" if none)
    lastOp,                 \* the name of the last callback that ran
    returned,               \* what the last callback returned or handed back
    trace                   \* the files the last callback's chunk walk handled

vars == << chunks, assetKeys, assets, assetsInfo, hashLoading,
           crossOriginLoading, disk, tags, realContentHash, assetIntegrity,
           inverseAssetIntegrity, hwpPublicPath, sortedSccChunks,
           hashByChunkId, hwpAssets, rehashes, warnings, errors, raised, lastOp,
           returned, trace >>

(***************************************************************************)
(* Bounds of the model.                                                    *)
(***************************************************************************)
MaxBuffers == 2       \* updateHash is called with 0..MaxBuffers buffers
MaxRehash == 1        \* updateHash is called at most MaxRehash times
MaxEdges == 3         \* chunk graphs of SpecGraphs have at most MaxEdges edges

(***************************************************************************)
(* Maps (JavaScript Map / object) as functions with a growing domain.      *)
(***************************************************************************)
EmptyMap == [k \in {} |-> 0]

\* Map.set: k is bound to v, the other keys keep their values.
MapSet(m, k, v) == (k :> v) @@ m

\* Map.delete
MapDelete(m, k) == [x \in (DOMAIN m) \ {k} |-> m[x]] @@ EmptyMap

MapHas(m, k) == k \in DOMAIN m

(***************************************************************************)
(* Tokens and contents.                                                    *)
(***************************************************************************)
hashFuncNames == << "sha256" >>

Tok(kind, names, id, of) == [k |-> kind, alg |-> names, id |-> id, of |-> of]

Lit(n) == Tok("lit", << >>, n, << >>)

HotUpdateMarker == Tok("hot", << >>, 0, << >>)

\* No integrity: undefined / absent attribute.
Nil == Tok("nil", << >>, 0, << >>)

\* util.computeIntegrity: one "<alg>-<base64 digest>" per configured name.
computeIntegrity(names, source) == Tok("sri", names, 0, source)

\* util.makePlaceholder: the marker reserved for the digest of chunk id.
makePlaceholder(names, id) == Tok("ph", names, id, << >>)

IsPlaceholder(t) == t.k = "ph"

\* String.prototype.indexOf on a content: first position of tok, 0 if none.
indexOf(content, tok) ==
    IF \E i \in 1..Len(content) : content[i] = tok
    THEN CHOOSE i \in 1..Len(content) :
            /\ content[i] = tok
            /\ \A j \in 1..(i - 1) : content[j] # tok
    ELSE 0

\* A Source object: source() returns content, or throws when not readable.
Src(readable, content) == [readable |-> readable, content |-> content]

(***************************************************************************)
(* Paths.                                                                  *)
(***************************************************************************)
Path(abs, segs, query) == [abs |-> abs, segs |-> segs, query |-> query]

File(name) == Path(FALSE, << name >>, "")

NoPath == Path(FALSE, << >>, "")

\* process.cwd() of the build.
Cwd == << "home", "build" >>

\* util.normalizePath: drop the query, path.sep -> "/" (sep is "/" here).
normalizePath(p) == [p EXCEPT !.query = ""]

\* path.resolve of one path against the working directory.
Resolve(p) == IF p.abs THEN p.segs ELSE Cwd \o p.segs

\* The last segment of a path carries its query: with a query it differs
\* from the bare segment of the same name.
SegEq(from, i, to, j) ==
    /\ from.s[i] = to.s[j]
    /\ (i = Len(from.s) => from.q = "")
    /\ (j = Len(to.s) => to.q = "")

RECURSIVE CommonPrefix(_, _, _)
CommonPrefix(from, to, n) ==
    IF n < Len(from.s) /\ n < Len(to.s) /\ SegEq(from, n + 1, to, n + 1)
    THEN CommonPrefix(from, to, n + 1)
    ELSE n

\* path.relative(from, to)
relative(from, to) ==
    LET f == [s |-> Resolve(from), q |-> from.query]
        t == [s |-> Resolve(to), q |-> to.query]
        n == CommonPrefix(f, t, 0)
        ups == [i \in 1..(Len(f.s) - n) |-> ".."]
        rest == SubSeq(t.s, n + 1, Len(t.s))
    IN  Path(FALSE, ups \o rest, IF n = Len(t.s) THEN "" ELSE t.q)

(***************************************************************************)
(* The plugin's mutable state, threaded through the handlers.              *)
(***************************************************************************)
PluginState ==
    [ assetIntegrity |-> assetIntegrity,
      inverseAssetIntegrity |-> inverseAssetIntegrity,
      hashByChunkId |-> hashByChunkId,
      assets |-> assets,
      assetsInfo |-> assetsInfo,
      tags |-> tags,
      warnings |-> warnings,
      errors |-> errors,
      raised |-> "",
      trace |-> << >> ]

Throw(st, what) == [st EXCEPT !.raised = what]

\* reporter.warnOnce / reporter.errorOnce: one report per distinct message.
warnOnce(st, msg) == [st EXCEPT !.warnings = @ \cup {msg}]

errorOnce(st, msg) == [st EXCEPT !.errors = @ \cup {msg}]

(***************************************************************************)
(* Integrity registry.                                                     *)
(***************************************************************************)
\* A record that overwrites: the last writer wins.
updateAssetIntegrity_lastWriterWins(st, assetKey, integrity) ==
    [st EXCEPT
        !.assetIntegrity = MapSet(@, assetKey, integrity),
        !.inverseAssetIntegrity = MapSet(@, integrity, assetKey)]

updateAssetIntegrity(st, assetKey, integrity) ==
    IF ~MapHas(st.assetIntegrity, assetKey)
    THEN [st EXCEPT
            !.assetIntegrity = MapSet(@, assetKey, integrity),
            !.inverseAssetIntegrity = MapSet(@, integrity, assetKey)]
    ELSE st

RECURSIVE addMissingFrom(_, _, _)
addMissingFrom(st, keys, i) ==
    IF i > Len(keys) THEN st
    ELSE LET assetKey == keys[i]
             asset == st.assets[assetKey]
         IN  IF ~asset.readable
             THEN addMissingFrom(st, keys, i + 1)
             ELSE addMissingFrom(
                    updateAssetIntegrity(st, assetKey,
                        computeIntegrity(hashFuncNames, asset.content)),
                    keys, i + 1)

addMissingIntegrityHashes(st, keys) == addMissingFrom(st, keys, 1)

(***************************************************************************)
(* Chunks.  A chunk is [id, hasId, files, children]: id names the chunk    *)
(* object, hasId is FALSE when chunk.id is null, children are the ids of   *)
(* the chunks of its child groups, in iteration order.                     *)
(***************************************************************************)
ChunkIds == {chunks[i].id : i \in 1..Len(chunks)}

ChunkById(id) == chunks[CHOOSE i \in 1..Len(chunks) : chunks[i].id = id]

Range(s) == {s[i] : i \in 1..Len(s)}

Range2(f) == {f[x] : x \in DOMAIN f}

Reverse(s) == [i \in 1..Len(s) |-> s[Len(s) + 1 - i]]

\* util.findChunks: the chunks reachable from chunk, the chunk itself first,
\* each once, in the depth-first order in which they are met.
RECURSIVE recurseChunk(_, _)
RECURSIVE recurseChildren(_, _, _)
recurseChunk(allChunks, id) ==
    IF id \in Range(allChunks) THEN allChunks
    ELSE recurseChildren(Append(allChunks, id), ChunkById(id).children, 1)

recurseChildren(allChunks, children, i) ==
    IF i > Len(children) THEN allChunks
    ELSE recurseChildren(recurseChunk(allChunks, children[i]), children, i + 1)

findChunks(id) == recurseChunk(<< >>, id)

(***************************************************************************)
(* Asset patcher.                                                          *)
(***************************************************************************)
HotUpdateWarning == "webpack-subresource-integrity may interfere with hot reloading."

LongTermCachingWarning == "Using [hash], [fullhash], [modulehash], or [chunkhash] is dangerous with SRI."

NoAssetWarning(sourcePath) == << "No asset found for source path", sourcePath >>

CrossOriginError == "webpack option output.crossOriginLoading not set, code splitting will not work!"

warnIfHotUpdate(st, source) ==
    IF indexOf(source, HotUpdateMarker) > 0
    THEN warnOnce(st, << HotUpdateWarning >>)
    ELSE st

\* A replacement that stops after the placeholder found first in the content.
replacedContent_firstOnly(oldSource, hashes) ==
    LET hits == {i \in 1..Len(oldSource) : \E id \in DOMAIN hashes :
                    indexOf(oldSource, makePlaceholder(hashFuncNames, id)) = i}
    IN  << >> \o
        [i \in 1..Len(oldSource) |->
            IF i \in hits /\ \A h \in hits : i <= h
            THEN hashes[oldSource[i].id]
            ELSE oldSource[i]]

\* A replacement that blanks the placeholder of a chunk without a hash.
replacedContent_blanksUnknown(oldSource, hashes) ==
    << >> \o
    [i \in 1..Len(oldSource) |->
        IF IsPlaceholder(oldSource[i])
        THEN IF oldSource[i].id \in DOMAIN hashes
             THEN hashes[oldSource[i].id] ELSE Nil
        ELSE oldSource[i]]

\* The content of the ReplaceSource built over assets[chunkFile]: every
\* placeholder of a chunk of hashByChunkId is replaced, at its first
\* position in the old content, by that chunk's hash.
replacedContent(oldSource, hashes) ==
    << >> \o
    [i \in 1..Len(oldSource) |->
        IF \E id \in DOMAIN hashes :
              indexOf(oldSource, makePlaceholder(hashFuncNames, id)) = i
        THEN hashes[CHOOSE id \in DOMAIN hashes :
              indexOf(oldSource, makePlaceholder(hashFuncNames, id)) = i]
        ELSE oldSource[i]]

\* A replaceAsset that builds the new source and does not put it in assets.
replaceAsset_notStored(st, hashes, chunkFile) == st

replaceAsset(st, hashes, chunkFile) ==
    LET oldSource == st.assets[chunkFile].content
    IN  [st EXCEPT !.assets[chunkFile] =
            Src(TRUE, replacedContent(oldSource, hashes))]

\* contenthash of an asset info: undefined, a string, or an array.
ContentHash(isArray, vals) == [isArray |-> isArray, vals |-> vals]

Truthy(contenthash) == contenthash.isArray \/ Len(contenthash.vals) > 0

warnAboutLongTermCaching(st, assetInfo) ==
    IF /\ (assetInfo.hashed \/ Truthy(assetInfo.contenthash))
       /\ ~(Truthy(assetInfo.contenthash) /\ realContentHash)
    THEN warnOnce(st, << LongTermCachingWarning >>)
    ELSE st

\* [...new Set(xs)]: the first occurrence of each value, in order.
RECURSIVE Dedupe(_)
Dedupe(xs) ==
    IF xs = << >> THEN << >>
    ELSE LET front == Dedupe(SubSeq(xs, 1, Len(xs) - 1))
             last == xs[Len(xs)]
         IN  IF last \in Range(front) THEN front ELSE Append(front, last)

\* An asset info callback that puts the integrity in place of the field.
updatedContentHash_overwrites(contenthash, integrity) ==
    ContentHash(FALSE, << integrity >>)

\* The asset info callback given to compilation.updateAsset.
updatedContentHash(contenthash, integrity) ==
    IF contenthash.isArray
    THEN ContentHash(TRUE, Dedupe(Append(contenthash.vals, integrity)))
    ELSE IF Truthy(contenthash)
         THEN ContentHash(TRUE, << contenthash.vals[1], integrity >>)
         ELSE ContentHash(FALSE, << integrity >>)

updateAssetInfo(st, sourcePath, integrity) ==
    LET assetInfo == st.assetsInfo[sourcePath]
        warned == warnAboutLongTermCaching(st, assetInfo)
    IN  [warned EXCEPT !.assetsInfo[sourcePath].contenthash =
            updatedContentHash(assetInfo.contenthash, integrity)]

\* `${childChunk.id}.js`
SyntheticFile(chunk) ==
    File(IF chunk.hasId THEN ToString(chunk.id) \o ".js" ELSE "null.js")

ChunkFiles(chunk) ==
    IF Len(chunk.files) <= 0 THEN << SyntheticFile(chunk) >> ELSE chunk.files

\* One turn of files.forEach in processChunkAssets: the chunk and the source
\* path, whether assets[sourcePath] was missing, hashByChunkId and the content
\* when the turn began, whether the registry already held the path, the content
\* replaceAsset left and the integrity computed from it.
Handled(childChunk, sourcePath, st, newContent, integrity) ==
    [ chunk |-> childChunk.id,
      file |-> sourcePath,
      missing |-> sourcePath \notin DOMAIN st.assets,
      known |-> st.hashByChunkId,
      recorded |-> MapHas(st.assetIntegrity, sourcePath),
      before |-> IF sourcePath \in DOMAIN st.assets
                 THEN st.assets[sourcePath].content ELSE << >>,
      after |-> newContent,
      integrity |-> integrity ]

\* A body of files.forEach that reads the source of an asset that is missing.
processChunkFile_missingRaises(st, childChunk, sourcePath) ==
    IF sourcePath \notin DOMAIN st.assets
    THEN Throw(st, "TypeError")
    ELSE IF ~st.assets[sourcePath].readable
    THEN Throw(st, "SourceUnavailable")
    ELSE
      LET hot == warnIfHotUpdate(st, st.assets[sourcePath].content)
          replaced == replaceAsset(hot, hot.hashByChunkId, sourcePath)
          integrity == computeIntegrity(hashFuncNames,
                           replaced.assets[sourcePath].content)
          hashed == IF childChunk.hasId
                    THEN [replaced EXCEPT !.hashByChunkId =
                             MapSet(@, childChunk.id, integrity)]
                    ELSE replaced
          recorded == updateAssetIntegrity(hashed, sourcePath, integrity)
          informed == updateAssetInfo(recorded, sourcePath, integrity)
      IN  [informed EXCEPT !.trace = Append(@,
              Handled(childChunk, sourcePath, st,
                      replaced.assets[sourcePath].content, integrity))]

\* The body of files.forEach in processChunkAssets, for one source path.
processChunkFile(st, childChunk, sourcePath) ==
    IF sourcePath \in DOMAIN st.assets
    THEN IF ~st.assets[sourcePath].readable
         THEN Throw(st, "SourceUnavailable")
         ELSE
           LET hot == warnIfHotUpdate(st, st.assets[sourcePath].content)
               replaced == replaceAsset(hot, hot.hashByChunkId, sourcePath)
               integrity == computeIntegrity(hashFuncNames,
                                replaced.assets[sourcePath].content)
               hashed == IF childChunk.hasId
                         THEN [replaced EXCEPT !.hashByChunkId =
                                  MapSet(@, childChunk.id, integrity)]
                         ELSE replaced
               recorded == updateAssetIntegrity(hashed, sourcePath, integrity)
               informed == updateAssetInfo(recorded, sourcePath, integrity)
           IN  [informed EXCEPT !.trace = Append(@,
                   Handled(childChunk, sourcePath, st,
                           replaced.assets[sourcePath].content, integrity))]
    ELSE [warnOnce(st, NoAssetWarning(sourcePath)) EXCEPT !.trace = Append(@,
             Handled(childChunk, sourcePath, st, << >>, Nil))]

RECURSIVE processChunkFilesFrom(_, _, _, _)
processChunkFilesFrom(st, childChunk, files, i) ==
    IF i > Len(files) \/ st.raised # "" THEN st
    ELSE processChunkFilesFrom(processChunkFile(st, childChunk, files[i]),
                               childChunk, files, i + 1)

processChunkAssets(st, id) ==
    processChunkFilesFrom(st, ChunkById(id), ChunkFiles(ChunkById(id)), 1)

\* ids.forEach((chunk) => this.processChunkAssets(chunk, assets))
RECURSIVE processChunksFrom(_, _, _)
processChunksFrom(st, ids, i) ==
    IF i > Len(ids) \/ st.raised # "" THEN st
    ELSE processChunksFrom(processChunkAssets(st, ids[i]), ids, i + 1)

\* A processChunk that walks the chunks as found, the parent first.
processChunk_parentsFirst(st, id) == processChunksFrom(st, findChunks(id), 1)

processChunk(st, id) == processChunksFrom(st, Reverse(findChunks(id)), 1)

RECURSIVE processRootsFrom(_, _)
processRootsFrom(st, i) ==
    IF i > Len(chunks) \/ st.raised # "" THEN st
    ELSE processRootsFrom(processChunk(st, chunks[i].id), i + 1)

\* The member chunks of the SCC list, SCC after SCC.
RECURSIVE SccNodes(_, _)
SccNodes(sccs, i) ==
    IF i > Len(sccs) THEN << >> ELSE sccs[i] \o SccNodes(sccs, i + 1)

\* A lazy walk that takes the SCC list from its end.
walkChunks_lastSccFirst(st) ==
    IF hashLoading = "lazy"
    THEN processChunksFrom(st, Reverse(SccNodes(sortedSccChunks, 1)), 1)
    ELSE processRootsFrom(st, 1)

walkChunks(st) ==
    IF hashLoading = "lazy"
    THEN processChunksFrom(st, SccNodes(sortedSccChunks, 1), 1)
    ELSE processRootsFrom(st, 1)

processAssets(st) ==
    LET walked == walkChunks(st)
    IN  IF walked.raised # "" THEN walked
        ELSE addMissingIntegrityHashes(walked, assetKeys)

(***************************************************************************)
(* Cycle resolver (lazy mode): util.getChunkToManifestMap.  One depth-first*)
(* pass over compilation.chunks; a strongly connected component is         *)
(* completed when the first chunk met of it is left, and holds its chunks  *)
(* in the order in which they are popped.                                  *)
(***************************************************************************)
RECURSIVE strongConnect(_, _)
RECURSIVE strongConnectChildren(_, _, _)
strongConnect(walk, id) ==
    IF id \in Range(walk.pre) THEN walk
    ELSE LET below == strongConnectChildren(
                         [walk EXCEPT !.pre = Append(@, id)],
                         ChunkById(id).children, 1)
         IN  [below EXCEPT !.post = Append(@, id)]

strongConnectChildren(walk, children, i) ==
    IF i > Len(children) THEN walk
    ELSE strongConnectChildren(strongConnect(walk, children[i]), children, i + 1)

RECURSIVE strongConnectAll(_, _)
strongConnectAll(walk, i) ==
    IF i > Len(chunks) THEN walk
    ELSE strongConnectAll(strongConnect(walk, chunks[i].id), i + 1)

Reachable(id) == Range(findChunks(id))

SccOf(id) == {other \in Reachable(id) : id \in Reachable(other)}

RECURSIVE Filter(_, _)
Filter(s, keep) ==
    IF s = << >> THEN << >>
    ELSE IF s[1] \in keep THEN << s[1] >> \o Filter(Tail(s), keep)
         ELSE Filter(Tail(s), keep)

RECURSIVE sccsFrom(_, _)
sccsFrom(walk, i) ==
    IF i > Len(walk.post) THEN << >>
    ELSE LET id == walk.post[i]
             scc == SccOf(id)
         IN  IF \A j \in (i + 1)..Len(walk.post) : walk.post[j] \notin scc
             THEN << Reverse(Filter(walk.pre, scc)) >> \o sccsFrom(walk, i + 1)
             ELSE sccsFrom(walk, i + 1)

getChunkToManifestMap ==
    sccsFrom(strongConnectAll([pre |-> << >>, post |-> << >>], 1), 1)

(***************************************************************************)
(* Tag injector.                                                           *)
(***************************************************************************)
Attributes(src, href, integrity, crossorigin) ==
    [src |-> src, href |-> href, integrity |-> integrity,
     crossorigin |-> crossorigin]

Tag(tagName, hasAttributes, attributes) ==
    [tagName |-> tagName, hasAttributes |-> hasAttributes,
     attributes |-> attributes]

\* util.getTagSrc: href, else src, of a script or link tag; NoPath if none.
getTagSrc(tag) ==
    IF tag.tagName \notin {"script", "link"} \/ ~tag.hasAttributes THEN NoPath
    ELSE IF tag.attributes.href # NoPath THEN tag.attributes.href
    ELSE tag.attributes.src

PublicPath(isNull, path) == [isNull |-> isNull, path |-> path]

getIntegrityChecksumForAsset(st, src) ==
    IF MapHas(st.assetIntegrity, src) THEN st.assetIntegrity[src]
    ELSE LET normalizedSrc == normalizePath(src)
             found == {i \in 1..Len(assetKeys) :
                          normalizePath(assetKeys[i]) = normalizedSrc}
         IN  IF found # {}
             THEN LET normalizedKey ==
                        assetKeys[CHOOSE i \in found : \A j \in found : i <= j]
                  IN  IF MapHas(st.assetIntegrity, normalizedKey)
                      THEN st.assetIntegrity[normalizedKey]
                      ELSE Nil
             ELSE Nil

\* hwpAssetPath, once the assertion on hwpPublicPath has passed.
hwpAssetPath(src) == relative(hwpPublicPath.path, src)

\* An attach that writes the default whatever the output's mode.
attach_alwaysAnonymous(st, i, integrity) ==
    [st EXCEPT
        !.tags[i].attributes.integrity = integrity,
        !.tags[i].attributes.crossorigin = "anonymous"]

\* The integrity and crossorigin attributes processTag sets on tag i.
attach(st, i, integrity) ==
    [st EXCEPT
        !.tags[i].attributes.integrity = integrity,
        !.tags[i].attributes.crossorigin =
            IF crossOriginLoading # "" THEN crossOriginLoading
            ELSE "anonymous"]

\* A processTag without the guard on an integrity attribute already present.
processTag_overwrites(st, i) ==
    LET tagSrc == getTagSrc(st.tags[i])
    IN  IF tagSrc = NoPath THEN st
        ELSE IF hwpPublicPath.isNull THEN Throw(st, "AssertionError")
        ELSE
          LET src == hwpAssetPath(tagSrc)
              known == getIntegrityChecksumForAsset(st, src)
          IN  IF known = Nil /\ src \notin DOMAIN disk
              THEN Throw(st, "ENOENT")
              ELSE attach(st, i,
                      IF known # Nil THEN known
                      ELSE computeIntegrity(hashFuncNames, disk[src]))

\* A processTag that reads the output directory before the registry.
processTag_prefersDisk(st, i) ==
    LET tag == st.tags[i]
        tagSrc == getTagSrc(tag)
    IN  IF tag.hasAttributes /\ tag.attributes.integrity # Nil THEN st
        ELSE IF tagSrc = NoPath THEN st
        ELSE IF hwpPublicPath.isNull THEN Throw(st, "AssertionError")
        ELSE
          LET src == hwpAssetPath(tagSrc)
              known == getIntegrityChecksumForAsset(st, src)
          IN  IF known = Nil /\ src \notin DOMAIN disk
              THEN Throw(st, "ENOENT")
              ELSE attach(st, i,
                      IF src \in DOMAIN disk
                      THEN computeIntegrity(hashFuncNames, disk[src])
                      ELSE known)

processTag(st, i) ==
    LET tag == st.tags[i]
        tagSrc == getTagSrc(tag)
    IN  IF tag.hasAttributes /\ tag.attributes.integrity # Nil THEN st
        ELSE IF tagSrc = NoPath THEN st
        ELSE IF hwpPublicPath.isNull THEN Throw(st, "AssertionError")
        ELSE
          LET src == hwpAssetPath(tagSrc)
              known == getIntegrityChecksumForAsset(st, src)
          IN  IF known = Nil /\ src \notin DOMAIN disk
              THEN Throw(st, "ENOENT")
              ELSE attach(st, i,
                      IF known # Nil THEN known
                      ELSE computeIntegrity(hashFuncNames, disk[src]))

RECURSIVE processTagsFrom(_, _)
processTagsFrom(st, i) ==
    IF i > Len(st.tags) \/ st.raised # "" THEN st
    ELSE processTagsFrom(processTag(st, i), i + 1)

handleHwpBodyTags(st) ==
    processTagsFrom(addMissingIntegrityHashes(st, assetKeys), 1)

\* filePaths.map(getIntegrityChecksumForAsset(hwpAssetPath(.))).filter(notNil)
RECURSIVE integrityOfFiles(_, _, _)
integrityOfFiles(st, publicPath, filePaths) ==
    IF filePaths = << >> THEN << >>
    ELSE LET known == getIntegrityChecksumForAsset(st,
                          relative(publicPath, filePaths[1]))
             rest == integrityOfFiles(st, publicPath, Tail(filePaths))
         IN  IF known # Nil THEN << known >> \o rest ELSE rest

(***************************************************************************)
(* addAttribute: the code the runtime uses to load a chunk as element      *)
(* elName, extended by the integrity and crossOrigin assignments.  The     *)
(* result is the state after the call and the lines returned.              *)
(***************************************************************************)
addAttribute(st, elName, source) ==
    [st |-> IF crossOriginLoading = ""
            THEN errorOnce(st, << CrossOriginError >>)
            ELSE st,
     returned |-> << source,
                     << elName, "integrity", "sriHashes[chunkId]" >>,
                     << elName, "crossOrigin", crossOriginLoading >> >>]

(***************************************************************************)
(* updateHash: the result is the registry after the call and the value     *)
(* returned (Nil for undefined).                                           *)
(***************************************************************************)
\* A rehash that leaves the old digest in the reverse map.
updateHash_keepsOldDigest(st, input, oldHash) ==
    IF MapHas(st.inverseAssetIntegrity, oldHash) /\ Len(input) = 1
    THEN LET assetKey == st.inverseAssetIntegrity[oldHash]
             newIntegrity == computeIntegrity(hashFuncNames, input[1])
             deleted == [st EXCEPT !.assetIntegrity = MapDelete(@, assetKey)]
         IN  [st |-> updateAssetIntegrity(deleted, assetKey, newIntegrity),
              returned |-> newIntegrity]
    ELSE [st |-> st, returned |-> Nil]

\* A rehash that takes the first of several buffers.
updateHash_anyBuffers(st, input, oldHash) ==
    IF MapHas(st.inverseAssetIntegrity, oldHash) /\ Len(input) >= 1
    THEN LET assetKey == st.inverseAssetIntegrity[oldHash]
             newIntegrity == computeIntegrity(hashFuncNames, input[1])
             deleted == [st EXCEPT
                           !.inverseAssetIntegrity = MapDelete(@, oldHash),
                           !.assetIntegrity = MapDelete(@, assetKey)]
         IN  [st |-> updateAssetIntegrity(deleted, assetKey, newIntegrity),
              returned |-> newIntegrity]
    ELSE [st |-> st, returned |-> Nil]

updateHash(st, input, oldHash) ==
    IF MapHas(st.inverseAssetIntegrity, oldHash) /\ Len(input) = 1
    THEN LET assetKey == st.inverseAssetIntegrity[oldHash]
             newIntegrity == computeIntegrity(hashFuncNames, input[1])
             deleted == [st EXCEPT
                           !.inverseAssetIntegrity = MapDelete(@, oldHash),
                           !.assetIntegrity = MapDelete(@, assetKey)]
         IN  [st |-> updateAssetIntegrity(deleted, assetKey, newIntegrity),
              returned |-> newIntegrity]
    ELSE [st |-> st, returned |-> Nil]

(***************************************************************************)
(* The builds the model starts from.                                       *)
(***************************************************************************)
Chunk(id, hasId, files, children) ==
    [id |-> id, hasId |-> hasId, files |-> files, children |-> children]

AssetInfo(hashed, contenthash) == [hashed |-> hashed, contenthash |-> contenthash]

NoInfo == AssetInfo(FALSE, ContentHash(FALSE, << >>))

\* A [contenthash] that webpack put into a file name.
WebpackHash == Tok("contenthash", << >>, 0, << >>)

\* publicPath + file, as the HTML plugin forms the source of a tag.
Prefixed(publicPath, file) ==
    Path(publicPath.abs, publicPath.segs \o file.segs, file.query)

MainJs == File("main.js")

TwoJs == File("2.js")

\* A file of chunk 2 that is no asset of the compilation.
TwoCss == File("2.css")

ExtraCss == File("extra.css")

DllJs == File("MyDll.alpha.js")

RemoteEntry == Path(FALSE, << "http:", "localhost:8081", "remoteEntry.js" >>, "")

\* An integrity attribute written by the page's author (LoadRemotesPlugin).
AuthorIntegrity == computeIntegrity(<< "sha256" >>, << Tok("remote", << >>, 0, << >>) >>)

NoAttributes == Attributes(NoPath, NoPath, Nil, "")

AppTags(publicPath) ==
    << Tag("script", TRUE,
           Attributes(RemoteEntry, NoPath, AuthorIntegrity, "anonymous")),
       Tag("script", TRUE,
           Attributes(Prefixed(publicPath, MainJs), NoPath, Nil, "")),
       Tag("link", TRUE,
           Attributes(NoPath,
                      Prefixed(publicPath, [ExtraCss EXCEPT !.query = "v=1"]),
                      Nil, "")),
       Tag("meta", TRUE, NoAttributes),
       Tag("script", TRUE, Attributes(DllJs, NoPath, Nil, "")) >>

\* How the page is produced: the HTML plugin's public path, the cross-origin
\* mode of the output, and the files an earlier build left in the output
\* directory (the DLL bundle, and a main.js with other bytes).
HtmlSetup(publicPath, crossOrigin, files) ==
    [publicPath |-> publicPath, crossOrigin |-> crossOrigin, files |-> files]

HtmlSetups ==
    { HtmlSetup(Path(FALSE, << >>, ""), "use-credentials", {DllJs, MainJs}),
      HtmlSetup(Path(FALSE, << >>, ""), "", {}),
      HtmlSetup(Path(TRUE, << >>, ""), "", {DllJs}) }

InitHtml ==
    \E setup \in HtmlSetups :
        /\ crossOriginLoading = setup.crossOrigin
        /\ disk = [k \in setup.files |-> << Lit(1) >>]
        /\ hwpAssets = [publicPath |-> setup.publicPath,
                        js |-> << Prefixed(setup.publicPath, MainJs) >>,
                        css |-> << Prefixed(setup.publicPath, ExtraCss) >>]
        /\ tags = AppTags(setup.publicPath)

\* An application: an entry chunk that loads chunks 2 and 3, of which chunk 2
\* names a style sheet that is no asset and chunk 3 produced no file, and a
\* style sheet that belongs to no chunk and holds either the bytes of 2.js or
\* bytes of its own.
InitApp ==
    /\ chunks = << Chunk(1, TRUE, << MainJs >>, << 2, 3 >>),
                   Chunk(2, TRUE, << TwoCss, TwoJs >>, << >>),
                   Chunk(3, TRUE, << >>, << >>) >>
    /\ assetKeys = << MainJs, TwoJs, ExtraCss >>
    /\ \E n \in {2, 3} : \E unreadable \in {NoPath, TwoJs, ExtraCss} :
          /\ unreadable # NoPath => n = 3
          /\ assets = [k \in Range(assetKeys) |->
                Src(k # unreadable,
                    IF k = MainJs
                    THEN << Lit(1), makePlaceholder(hashFuncNames, 2) >>
                    ELSE IF k = TwoJs THEN << Lit(2) >> ELSE << Lit(n) >>)]
    /\ assetsInfo = [k \in Range(assetKeys) |->
          IF k = MainJs
          THEN AssetInfo(FALSE, ContentHash(FALSE, << WebpackHash >>))
          ELSE NoInfo]
    /\ hashLoading \in {"eager", "lazy"}
    /\ realContentHash = TRUE
    /\ InitHtml

(***************************************************************************)
(* Chunk graphs: every chunk has one file, which holds a literal and one   *)
(* placeholder for each of its child chunks.                               *)
(***************************************************************************)
GraphChunks == {1, 2, 3}

Injective(s) == \A i, j \in DOMAIN s : s[i] = s[j] => i = j

\* The sequences without repetition over S, of every length.
Orderings(S) ==
    {s \in UNION {[1..n -> S] : n \in 0..Cardinality(S)} : Injective(s)}

ChunkOrders(S) == {s \in Orderings(S) : Len(s) = Cardinality(S)}

ChunkFile(id) == File(ToString(id) \o ".js")

ChunkContent(id, children) ==
    << Lit(id) >> \o [i \in 1..Len(children) |->
                        makePlaceholder(hashFuncNames, children[i])]

RECURSIVE SumLen(_, _)
SumLen(f, S) ==
    IF S = {} THEN 0
    ELSE LET x == CHOOSE y \in S : TRUE
         IN  Len(f[x]) + SumLen(f, S \ {x})

InitGraph ==
    /\ \E order \in ChunkOrders(GraphChunks) :
       \E children \in [GraphChunks -> Orderings(GraphChunks)] :
          /\ \A id \in GraphChunks : id \notin Range(children[id])
          /\ SumLen(children, GraphChunks) <= MaxEdges
          /\ chunks = [i \in 1..Len(order) |->
                Chunk(order[i], TRUE, << ChunkFile(order[i]) >>,
                      children[order[i]])]
          /\ assetKeys = [i \in 1..Len(order) |-> ChunkFile(i)]
          /\ assets = [k \in {ChunkFile(id) : id \in GraphChunks} |->
                LET id == CHOOSE c \in GraphChunks : ChunkFile(c) = k
                IN  Src(TRUE, ChunkContent(id, children[id]))]
    /\ assetsInfo = [k \in Range(assetKeys) |-> NoInfo]
    /\ hashLoading \in {"eager", "lazy"}
    /\ realContentHash = TRUE
    /\ crossOriginLoading = "anonymous"
    /\ disk = EmptyMap
    /\ hwpAssets = [publicPath |-> Path(FALSE, << >>, ""),
                    js |-> << >>, css |-> << >>]
    /\ tags = << >>

\* integrity: the value returned (Nil for undefined); jsIntegrity and
\* cssIntegrity: the lists written into the HTML plugin's assets; template:
\* the lines of runtime code addAttribute returned.
Returned(integrity, jsIntegrity, cssIntegrity) ==
    [integrity |-> integrity, jsIntegrity |-> jsIntegrity,
     cssIntegrity |-> cssIntegrity, template |-> << >>]

Nothing == Returned(Nil, << >>, << >>)

InitPlugin ==
    /\ assetIntegrity = EmptyMap
    /\ inverseAssetIntegrity = EmptyMap
    /\ hwpPublicPath = PublicPath(TRUE, NoPath)
    /\ sortedSccChunks = << >>
    /\ hashByChunkId = EmptyMap
    /\ rehashes = 0
    /\ warnings = {}
    /\ errors = {}
    /\ raised = ""
    /\ lastOp = "new"
    /\ returned = Nothing
    /\ trace = << >>

Init == InitApp /\ InitPlugin

InitGraphs == InitGraph /\ InitPlugin

(***************************************************************************)
(* The lifecycle callbacks.  A callback that raises ends the build.        *)
(***************************************************************************)
Environment ==
    << chunks, assetKeys, hashLoading, crossOriginLoading, disk,
       realContentHash, hwpAssets >>

\* The state the plugin and the build are left in by a callback.
Becomes(st) ==
    /\ assetIntegrity' = st.assetIntegrity
    /\ inverseAssetIntegrity' = st.inverseAssetIntegrity
    /\ hashByChunkId' = st.hashByChunkId
    /\ assets' = st.assets
    /\ assetsInfo' = st.assetsInfo
    /\ tags' = st.tags
    /\ warnings' = st.warnings
    /\ errors' = st.errors
    /\ raised' = st.raised
    /\ trace' = st.trace

BeforeRuntimeRequirements ==
    /\ raised = ""
    /\ sortedSccChunks' =
          IF hashLoading = "lazy" THEN getChunkToManifestMap
          ELSE sortedSccChunks
    /\ Becomes([PluginState EXCEPT !.hashByChunkId = EmptyMap])
    /\ lastOp' = "beforeRuntimeRequirements"
    /\ returned' = Nothing
    /\ UNCHANGED << Environment, hwpPublicPath, rehashes >>

ProcessAssets ==
    /\ raised = ""
    /\ Becomes(processAssets(PluginState))
    /\ lastOp' = "processAssets"
    /\ returned' = Nothing
    /\ UNCHANGED << Environment, hwpPublicPath, rehashes, sortedSccChunks >>

\* The buffers and the old hashes updateHash is called with.
Buffers == {<< Lit(1) >>, << Lit(2) >>}

\* input: no buffer, or up to MaxBuffers copies of one buffer.
Inputs == {[i \in 1..n |-> b] : n \in 0..MaxBuffers, b \in Buffers}

OldHashes ==
    (DOMAIN inverseAssetIntegrity)
        \cup {computeIntegrity(hashFuncNames, b) : b \in Buffers}

UpdateHashCall(input, oldHash) ==
    /\ raised = ""
    /\ rehashes < MaxRehash
    /\ rehashes' = rehashes + 1
    /\ LET result == updateHash(PluginState, input, oldHash)
       IN  /\ Becomes(result.st)
           /\ returned' = Returned(result.returned, << >>, << >>)
    /\ lastOp' = "updateHash"
    /\ UNCHANGED << Environment, hwpPublicPath, sortedSccChunks >>

UpdateHash ==
    \E input \in Inputs : \E oldHash \in OldHashes :
        UpdateHashCall(input, oldHash)

HandleHwpPluginArgs ==
    /\ raised = ""
    /\ hwpPublicPath' = PublicPath(FALSE, hwpAssets.publicPath)
    /\ returned' = Returned(Nil,
          integrityOfFiles(PluginState, hwpAssets.publicPath, hwpAssets.js),
          integrityOfFiles(PluginState, hwpAssets.publicPath, hwpAssets.css))
    /\ Becomes(PluginState)
    /\ lastOp' = "handleHwpPluginArgs"
    /\ UNCHANGED << Environment, rehashes, sortedSccChunks >>

\* addMissingIntegrityHashes called with the assets of the compilation.
AddMissingIntegrityHashes ==
    /\ raised = ""
    /\ Becomes(addMissingIntegrityHashes(PluginState, assetKeys))
    /\ lastOp' = "addMissingIntegrityHashes"
    /\ returned' = Nothing
    /\ UNCHANGED << Environment, hwpPublicPath, rehashes, sortedSccChunks >>

HandleHwpBodyTags ==
    /\ raised = ""
    /\ Becomes(handleHwpBodyTags(PluginState))
    /\ lastOp' = "handleHwpBodyTags"
    /\ returned' = Nothing
    /\ UNCHANGED << Environment, hwpPublicPath, rehashes, sortedSccChunks >>

ProcessTag ==
    /\ raised = ""
    /\ \E i \in 1..Len(tags) :
          /\ Becomes(processTag(PluginState, i))
          /\ lastOp' = "processTag"
    /\ returned' = Nothing
    /\ UNCHANGED << Environment, hwpPublicPath, rehashes, sortedSccChunks >>

\* The element the runtime creates to load a chunk.
ElNames == {"script"}

AddAttribute ==
    /\ raised = ""
    /\ \E elName \in ElNames :
          LET result == addAttribute(PluginState, elName, << "load" >>)
          IN  /\ Becomes(result.st)
              /\ returned' = [Nothing EXCEPT !.template = result.returned]
    /\ lastOp' = "addAttribute"
    /\ UNCHANGED << Environment, hwpPublicPath, rehashes, sortedSccChunks >>

Next ==
    \/ BeforeRuntimeRequirements
    \/ AddAttribute
    \/ ProcessAssets
    \/ UpdateHash
    \/ HandleHwpPluginArgs
    \/ AddMissingIntegrityHashes
    \/ HandleHwpBodyTags
    \/ ProcessTag

Spec == Init /\ [][Next]_vars

\* The hash-emission phase and the registry fill, over every chunk graph.
NextGraphs ==
    \/ BeforeRuntimeRequirements
    \/ AddMissingIntegrityHashes
    \/ ProcessAssets

SpecGraphs == InitGraphs /\ [][NextGraphs]_vars

(***************************************************************************)
(* Properties.                                                             *)
(***************************************************************************)
Holds(map, k, v) == k \in DOMAIN map /\ map[k] = v

Recorded(k, d) == Holds(assetIntegrity, k, d)

Owned(d, k) == Holds(inverseAssetIntegrity, d, k)

Digests == (DOMAIN inverseAssetIntegrity) \cup Range2(assetIntegrity)

\* C1: the forward and the reverse map never disagree: assetIntegrity[k] = d
\* exactly when inverseAssetIntegrity[d] = k, for every key k and digest d.
C1_RegistryMapsAgree ==
    \A k \in Range(assetKeys) : \A d \in Digests :
        Recorded(k, d) <=> Owned(d, k)

\* C2: record is first-writer-wins.  A callback other than updateHash leaves
\* the digest of every recorded asset as it is, and changes the reverse map
\* only by the entries of the keys it records for the first time; updateHash
\* changes the digest of no key but the owner of the old digest.
C2_FirstWriterWins ==
    [][ /\ lastOp' # "updateHash" =>
             /\ \A k \in DOMAIN assetIntegrity :
                    Holds(assetIntegrity', k, assetIntegrity[k])
             /\ \A d \in DOMAIN inverseAssetIntegrity :
                    \/ Holds(inverseAssetIntegrity', d, inverseAssetIntegrity[d])
                    \/ /\ d \in DOMAIN inverseAssetIntegrity'
                       /\ inverseAssetIntegrity'[d] \notin DOMAIN assetIntegrity
             /\ \A d \in (DOMAIN inverseAssetIntegrity') \ DOMAIN inverseAssetIntegrity :
                    inverseAssetIntegrity'[d] \notin DOMAIN assetIntegrity
        /\ lastOp' = "updateHash" =>
             \A input \in Inputs : \A oldHash \in OldHashes :
               \/ \A k \in DOMAIN assetIntegrity :
                     \/ Holds(assetIntegrity', k, assetIntegrity[k])
                     \/ Owned(oldHash, k)
               \/ ~UpdateHashCall(input, oldHash)
      ]_vars

\* A fill pass has met an asset that was recorded with another digest than
\* the digest of its bytes, and has left the record as it was.
C2_Witness ==
    /\ lastOp \in {"processAssets", "handleHwpBodyTags"}
    /\ raised = ""
    /\ \E k \in DOMAIN assetIntegrity :
          /\ assets[k].readable
          /\ assetIntegrity[k] # computeIntegrity(hashFuncNames, assets[k].content)

\* C3: a successful rehash (old digest owned by k, exactly one buffer)
\* returns the digest of the buffer, records it for k in both maps, drops the
\* old digest from the reverse map unless it is the new one, and changes
\* neither the set of keys nor the digest of any other key.
C3_RehashReplaces ==
    [][ \A input \in Inputs : \A oldHash \in OldHashes :
          ( /\ lastOp' = "updateHash"
            /\ oldHash \in DOMAIN inverseAssetIntegrity
            /\ Len(input) = 1
            /\ UpdateHashCall(input, oldHash) ) =>
              LET k == inverseAssetIntegrity[oldHash]
                  newDigest == computeIntegrity(hashFuncNames, input[1])
              IN  /\ returned'.integrity = newDigest
                  /\ raised' = ""
                  /\ Holds(assetIntegrity', k, newDigest)
                  /\ Holds(inverseAssetIntegrity', newDigest, k)
                  /\ newDigest # oldHash =>
                        oldHash \notin DOMAIN inverseAssetIntegrity'
                  /\ DOMAIN assetIntegrity' = DOMAIN assetIntegrity
                  /\ \A j \in (DOMAIN assetIntegrity) \ {k} :
                        assetIntegrity'[j] = assetIntegrity[j]
      ]_vars

\* A rehash has given an asset a digest that is not the digest of its bytes
\* in the asset collection, with the other assets still recorded.
C3_Witness ==
    /\ lastOp = "updateHash"
    /\ returned.integrity # Nil
    /\ Cardinality(DOMAIN assetIntegrity) >= 2
    /\ \E k \in DOMAIN assetIntegrity :
          /\ assetIntegrity[k] = returned.integrity
          /\ Owned(returned.integrity, k)
          /\ assetIntegrity[k] # computeIntegrity(hashFuncNames, assets[k].content)

\* C4: updateHash with an old digest the reverse map does not hold, or with
\* a number of buffers other than one, returns undefined, does not raise and
\* leaves the two maps and hashByChunkId as they are.
C4_RehashNoOp ==
    [][ \A input \in Inputs : \A oldHash \in OldHashes :
          \/ /\ returned'.integrity = Nil
             /\ raised' = ""
             /\ assetIntegrity' = assetIntegrity
             /\ inverseAssetIntegrity' = inverseAssetIntegrity
             /\ hashByChunkId' = hashByChunkId
          \/ ~( /\ lastOp' = "updateHash"
                /\ \/ oldHash \notin DOMAIN inverseAssetIntegrity
                   \/ Len(input) # 1
                /\ UpdateHashCall(input, oldHash) )
      ]_vars

\* updateHash has returned undefined on a registry that holds digests.
C4_Witness ==
    /\ lastOp = "updateHash"
    /\ returned.integrity = Nil
    /\ raised = ""
    /\ DOMAIN inverseAssetIntegrity # {}

HasIntegrity(tag) == tag.hasAttributes /\ tag.attributes.integrity # Nil

TagPass == {"handleHwpBodyTags", "processTag"}

\* C5: a tag that carries an integrity attribute is never changed again,
\* whatever callback runs, and a pass of handleHwpBodyTags that follows a
\* completed pass changes no tag.
C5_IdempotentTagging ==
    [][ /\ \A i \in 1..Len(tags) : HasIntegrity(tags[i]) => tags'[i] = tags[i]
        /\ (lastOp = "handleHwpBodyTags" /\ lastOp' = "handleHwpBodyTags")
              => tags' = tags
      ]_vars

\* A second pass has run after a rehash: the author's tag is as it was
\* written, and a tag keeps the digest the registry held at the first pass.
C5_Witness ==
    /\ lastOp = "handleHwpBodyTags"
    /\ raised = ""
    /\ rehashes > 0
    /\ tags[1].attributes.integrity = AuthorIntegrity
    /\ \E i \in 2..Len(tags) :
          /\ HasIntegrity(tags[i])
          /\ tags[i].attributes.integrity \notin Range2(assetIntegrity)
          /\ \A k \in DOMAIN disk :
                tags[i].attributes.integrity # computeIntegrity(hashFuncNames, disk[k])

\* The asset keys whose normalized path is the normalized path of src.
NormalizedKeys(src) ==
    {k \in Range(assetKeys) : normalizePath(k) = normalizePath(src)}

\* C6: a tag without integrity whose source resolves to src gets the digest
\* recorded under the key src; if there is none, the digest recorded for the
\* asset whose normalized key is the normalized src; if there is none either,
\* the digest of the bytes of src in the output directory.
C6_TagDigestResolution ==
    [][ \A i \in 1..Len(tags) :
          (lastOp' \in TagPass /\ ~HasIntegrity(tags[i]) /\ HasIntegrity(tags'[i])) =>
            LET src == hwpAssetPath(getTagSrc(tags[i]))
                integrity == tags'[i].attributes.integrity
                recorded == {k \in NormalizedKeys(src) : k \in DOMAIN assetIntegrity'}
            IN  /\ ~hwpPublicPath.isNull
                /\ IF src \in DOMAIN assetIntegrity'
                   THEN integrity = assetIntegrity'[src]
                   ELSE IF recorded # {}
                        THEN \A k \in recorded : integrity = assetIntegrity'[k]
                        ELSE /\ src \in DOMAIN disk
                             /\ integrity = computeIntegrity(hashFuncNames, disk[src])
      ]_vars

\* The three ways have been taken: the script of main.js has the digest
\* recorded under its key, the style sheet named with a query has the digest
\* of extra.css, and the DLL script has the digest of the bytes on disk.
C6_Witness ==
    /\ lastOp \in TagPass
    /\ Holds(assetIntegrity, MainJs, tags[2].attributes.integrity)
    /\ MainJs \in DOMAIN disk
    /\ tags[2].attributes.integrity # computeIntegrity(hashFuncNames, disk[MainJs])
    /\ Holds(assetIntegrity, ExtraCss, tags[3].attributes.integrity)
    /\ DllJs \notin DOMAIN assetIntegrity
    /\ tags[5].attributes.integrity = computeIntegrity(hashFuncNames, disk[DllJs])

(***************************************************************************)
(* Properties of the asset patcher over the chunk graphs.                  *)
(***************************************************************************)
Children(id) == Range(ChunkById(id).children)

Acyclic == \A id \in ChunkIds : \A c \in Children(id) : id \notin Reachable(c)

Content(id) == assets[ChunkFile(id)].content

HoldsPlaceholder(id, child) ==
    makePlaceholder(hashFuncNames, child) \in Range(Content(id))

Unresolved ==
    {k \in DOMAIN assets : \E i \in 1..Len(assets[k].content) :
                               IsPlaceholder(assets[k].content[i])}

\* C7: after eager processAssets on a chunk graph without cycles, in which
\* the asset of each chunk holds a placeholder for each child, no placeholder
\* is left in any asset, for every order of compilation.chunks.
C7_AcyclicResolved ==
    (hashLoading = "eager" /\ Acyclic /\ lastOp = "processAssets")
        => (raised = "" /\ Unresolved = {})

\* Eager processAssets has run on a chain a -> b -> c and has put the digest
\* of b's final content into a.
C7_Witness ==
    /\ hashLoading = "eager"
    /\ Acyclic
    /\ lastOp = "processAssets"
    /\ \E a, b, c \in ChunkIds :
          /\ b \in Children(a)
          /\ c \in Children(b)
          /\ computeIntegrity(hashFuncNames, Content(b)) \in Range(Content(a))
          /\ computeIntegrity(hashFuncNames, Content(c)) \in Range(Content(b))

\* The graph is the 2-cycle 1 <-> 2, with no other edge.
TwoCycle ==
    /\ ChunkById(1).children = << 2 >>
    /\ ChunkById(2).children = << 1 >>
    /\ \A id \in ChunkIds \ {1, 2} : ChunkById(id).children = << >>

\* C8: eager processAssets on the 2-cycle 1 <-> 2 does not raise and leaves
\* the placeholder of 2 in the asset of 1 and the placeholder of 1 in the
\* asset of 2.
C8_CycleLeftUnresolved ==
    (hashLoading = "eager" /\ TwoCycle /\ lastOp = "processAssets")
        => /\ raised = ""
           /\ HoldsPlaceholder(1, 2)
           /\ HoldsPlaceholder(2, 1)

\* C9: when processAssets or handleHwpBodyTags has run, every asset whose
\* source can be read is recorded, and an asset whose source cannot be read
\* has raised no error.
C9_FillMissingCoverage ==
    lastOp \in {"processAssets", "handleHwpBodyTags"} =>
        /\ raised # "SourceUnavailable"
        /\ \A k \in Range(assetKeys) :
              assets[k].readable => k \in DOMAIN assetIntegrity

\* C10: no lifecycle callback raises an error.
C10_NeverRaises == raised = ""

(***************************************************************************)
(* Properties of the diagnostics.                                          *)
(***************************************************************************)
\* The tags the tag injector has given an integrity attribute: all but the
\* script the author wrote with one.
Attached == {i \in 2..Len(tags) : HasIntegrity(tags[i])}

CrossOriginOf(i) == tags[i].attributes.crossorigin

CrossOriginSet(i) ==
    CrossOriginOf(i) = IF crossOriginLoading # "" THEN crossOriginLoading
                       ELSE "anonymous"

Diagnosed == << CrossOriginError >> \in errors

\* C11 as stated: a tag the injector has given an integrity attribute has
\* crossorigin set to the output's mode, or to "anonymous" when the mode is
\* unset, and when the mode is unset the error about the missing
\* crossOriginLoading has been reported.
C11_CrossOriginDiagnosed ==
    \A i \in Attached :
        /\ CrossOriginSet(i)
        /\ crossOriginLoading = "" => Diagnosed

\* C11 as amended: a tag the injector has given an integrity attribute has
\* crossorigin set to the output's mode, or to "anonymous" when the mode is
\* unset; the tag injector reports no error, and the error about the missing
\* crossOriginLoading is reported by addAttribute, exactly when the mode is
\* unset.
C11_CrossOriginAttached ==
    [][ /\ \A i \in 2..Len(tags) : HasIntegrity(tags'[i]) => CrossOriginSet(i)'
        /\ lastOp' \in TagPass => errors' = errors
        /\ lastOp' = "addAttribute" =>
              /\ Diagnosed' <=> (Diagnosed \/ crossOriginLoading = "")
              /\ tags' = tags
      ]_vars

\* The tag injector has attached the default "anonymous" under an unset mode
\* and no error has been reported.
C11_Witness ==
    /\ lastOp \in TagPass
    /\ crossOriginLoading = ""
    /\ errors = {}
    /\ \E i \in Attached : CrossOriginOf(i) = "anonymous"

(***************************************************************************)
(* Properties of the chunk walk, stated over the files it handled.         *)
(***************************************************************************)
\* The turns of the walk that found their asset.
Turns == {j \in 1..Len(trace) : ~trace[j].missing}

\* The files of the chunks that are assets of the compilation.
ChunkAssets ==
    {f \in DOMAIN assets : \E id \in ChunkIds : f \in Range(ChunkFiles(ChunkById(id)))}

\* C12: when processAssets has run, no asset was rewritten in a turn that
\* began with its digest already in the registry, and the registry holds for
\* every chunk asset the digest of its final content.
C12_MutationBeforeDigest ==
    (lastOp = "processAssets" /\ raised = "") =>
        /\ \A j \in Turns : trace[j].recorded => trace[j].after = trace[j].before
        /\ \A f \in ChunkAssets :
              Holds(assetIntegrity, f,
                    computeIntegrity(hashFuncNames, assets[f].content))

\* The turns before turn j that handled a file of chunk c.
TurnsOf(c, j) == {h \in Turns : h < j /\ trace[h].chunk = c}

\* The digest of chunk c that the walk has computed and stored when turn j
\* begins: the one of the last turn of c before j, else the one hashByChunkId
\* held when the walk began; Nil when there is none.
DigestAt(c, j) ==
    IF TurnsOf(c, j) # {}
    THEN trace[CHOOSE h \in TurnsOf(c, j) : \A g \in TurnsOf(c, j) : g <= h].integrity
    ELSE IF c \in DOMAIN trace[1].known THEN trace[1].known[c]
    ELSE Nil

\* C13: hashByChunkId is empty after beforeRuntimeRequirements, and in an
\* eager walk a turn changes a content only at a placeholder and only into
\* the digest computed and stored for that placeholder's chunk before the
\* turn; a placeholder of a chunk without a digest yet stays as it is.
C13_ChildBeforeParent ==
    /\ lastOp = "beforeRuntimeRequirements" => hashByChunkId = EmptyMap
    /\ (hashLoading = "eager" /\ lastOp = "processAssets") =>
          \A j \in Turns :
             /\ Len(trace[j].after) = Len(trace[j].before)
             /\ \A i \in 1..Len(trace[j].before) :
                   LET old == trace[j].before[i]
                       new == trace[j].after[i]
                   IN  /\ new # old =>
                            /\ IsPlaceholder(old)
                            /\ DigestAt(old.id, j) # Nil
                            /\ new = DigestAt(old.id, j)
                       /\ (IsPlaceholder(old) /\ DigestAt(old.id, j) = Nil) =>
                            new = old

\* An eager walk after beforeRuntimeRequirements has handled an asset in
\* which it left one placeholder, of a chunk not digested yet, and replaced
\* another.
C13_Witness ==
    /\ hashLoading = "eager"
    /\ lastOp = "processAssets"
    /\ raised = ""
    /\ \E j \in Turns :
          /\ trace[1].known = EmptyMap
          /\ \E i \in 1..Len(trace[j].before) :
                /\ IsPlaceholder(trace[j].before[i])
                /\ trace[j].after[i] = trace[j].before[i]
          /\ \E i \in 1..Len(trace[j].before) :
                /\ IsPlaceholder(trace[j].before[i])
                /\ trace[j].after[i] # trace[j].before[i]

\* C14: in one eager processAssets no chunk is handled twice: no two turns
\* of the walk handle the same file of the same chunk.
C14_NoRevisit ==
    (hashLoading = "eager" /\ lastOp = "processAssets") =>
        \A j, h \in 1..Len(trace) :
            (trace[j].chunk = trace[h].chunk /\ trace[j].file = trace[h].file)
                => j = h

\* C15 as stated: a lazy processAssets changes the content of no asset it
\* handles.
C15_NoSubstitutionInLazy ==
    (hashLoading = "lazy" /\ lastOp = "processAssets") =>
        \A j \in Turns : trace[j].after = trace[j].before

\* Position i is the first one of its token in the content.
FirstAt(content, i) == indexOf(content, content[i]) = i

\* C15 as amended: a lazy processAssets records every asset it handles and
\* replaces in it the first occurrence of the placeholder of every chunk
\* digested before in the walk by the digest stored for that chunk; the
\* placeholder of a chunk not digested yet, and every other byte, stay.
C15_LazySubstitutesKnown ==
    (hashLoading = "lazy" /\ lastOp = "processAssets") =>
        \A j \in Turns :
           /\ trace[j].file \in DOMAIN assetIntegrity
           /\ Len(trace[j].after) = Len(trace[j].before)
           /\ \A i \in 1..Len(trace[j].before) :
                 LET old == trace[j].before[i]
                 IN  trace[j].after[i] =
                        IF /\ IsPlaceholder(old)
                           /\ FirstAt(trace[j].before, i)
                           /\ DigestAt(old.id, j) # Nil
                        THEN DigestAt(old.id, j)
                        ELSE old

\* A lazy walk over the SCC list has put the digest of a chunk of an
\* earlier SCC into an asset, and has left the placeholder of a chunk of
\* the asset's own SCC that was digested later.
C15_Witness ==
    /\ hashLoading = "lazy"
    /\ lastOp = "processAssets"
    /\ raised = ""
    /\ \E j \in Turns :
          /\ \E i \in 1..Len(trace[j].before) :
                /\ IsPlaceholder(trace[j].before[i])
                /\ trace[j].after[i] =
                      computeIntegrity(hashFuncNames,
                          assets[ChunkFile(trace[j].before[i].id)].content)
          /\ \E i \in 1..Len(trace[j].before) :
                /\ IsPlaceholder(trace[j].before[i])
                /\ trace[j].after[i] = trace[j].before[i]

\* The chunks of the turns of the walk, in order.
Walked == [j \in 1..Len(trace) |-> trace[j].chunk]

\* Chunk a is in an SCC that depends on the SCC of chunk b.
DependsOn(a, b) == b \in Reachable(a) /\ a \notin Reachable(b)

\* C16: a lazy processAssets with the SCC list of beforeRuntimeRequirements
\* handles the chunks of the list in list order, every chunk of the graph
\* exactly once, and every chunk of an SCC before any chunk of an SCC that
\* depends on it.
C16_LazyOrdering ==
    (hashLoading = "lazy" /\ lastOp = "processAssets" /\ sortedSccChunks # << >>) =>
        /\ Walked = SccNodes(sortedSccChunks, 1)
        /\ \A id \in ChunkIds :
              Cardinality({j \in 1..Len(trace) : trace[j].chunk = id}) = 1
        /\ \A j, h \in 1..Len(trace) :
              DependsOn(trace[j].chunk, trace[h].chunk) => h < j

\* A lazy walk has handled a graph with an SCC of two chunks and an edge
\* from one SCC to another.
C16_Witness ==
    /\ hashLoading = "lazy"
    /\ lastOp = "processAssets"
    /\ raised = ""
    /\ Len(trace) = Cardinality(ChunkIds)
    /\ \E a, b \in ChunkIds : a # b /\ a \in Reachable(b) /\ b \in Reachable(a)
    /\ \E a, b \in ChunkIds : b \in Children(a) /\ DependsOn(a, b)

\* C17: the content replaceAsset leaves is the content it found, with each
\* placeholder of a chunk of hashByChunkId replaced, where it stood, by that
\* chunk's hash, whatever was replaced before it in the same content, and
\* with every other position as it was; the integrity computed in the turn
\* is the one of the content left.
C17_SubstitutionCorrect ==
    lastOp = "processAssets" =>
        \A j \in Turns :
           /\ Len(trace[j].after) = Len(trace[j].before)
           /\ \A i \in 1..Len(trace[j].before) :
                 LET old == trace[j].before[i]
                 IN  IF /\ IsPlaceholder(old)
                        /\ old.id \in DOMAIN trace[j].known
                        /\ FirstAt(trace[j].before, i)
                     THEN trace[j].after[i] = trace[j].known[old.id]
                     ELSE trace[j].after[i] = old
           /\ trace[j].integrity =
                 computeIntegrity(hashFuncNames, trace[j].after)

\* A turn has found a content with a literal and the placeholders of two
\* chunks with known hashes, and has left the literal and the two hashes.
C17_Witness ==
    /\ lastOp = "processAssets"
    /\ raised = ""
    /\ \E j \in Turns : \E c1, c2 \in DOMAIN trace[j].known :
          /\ c1 # c2
          /\ trace[j].before = << Lit(trace[j].chunk),
                                  makePlaceholder(hashFuncNames, c1),
                                  makePlaceholder(hashFuncNames, c2) >>
          /\ trace[j].after = << Lit(trace[j].chunk),
                                 trace[j].known[c1], trace[j].known[c2] >>

(***************************************************************************)
(* Properties of the asset info and of the missing assets.                 *)
(***************************************************************************)
Fingerprints(info) == Range(info.contenthash.vals)

\* C18: no callback removes a value from the contenthash of an asset; when
\* processAssets has handled an asset, its contenthash holds every integrity
\* computed for it in the walk, and is an array if it held a value before.
C18_FingerprintsExtended ==
    [][ \A k \in DOMAIN assetsInfo :
          /\ Fingerprints(assetsInfo[k]) \subseteq Fingerprints(assetsInfo'[k])
          /\ \A j \in 1..Len(trace') :
                (trace'[j].file = k /\ ~trace'[j].missing) =>
                   /\ trace'[j].integrity \in Fingerprints(assetsInfo'[k])
                   /\ Truthy(assetsInfo[k].contenthash) =>
                         assetsInfo'[k].contenthash.isArray
      ]_vars

\* main.js holds the content hash webpack gave it and the integrity the
\* walk computed, and the scalar contenthash of 2.js has become an array.
C18_Witness ==
    /\ lastOp = "processAssets"
    /\ raised = ""
    /\ MainJs \in DOMAIN assetIntegrity
    /\ assetsInfo[MainJs].contenthash =
          ContentHash(TRUE, << WebpackHash, assetIntegrity[MainJs] >>)
    /\ assetsInfo[TwoJs].contenthash.isArray
    /\ assetIntegrity[TwoJs] \in Fingerprints(assetsInfo[TwoJs])

\* hashByChunkId when turn j has ended.
KnownAfter(j) == IF j < Len(trace) THEN trace[j + 1].known ELSE hashByChunkId

\* The chunks a walk handles: all of them in an eager walk, those of the SCC
\* list in a lazy one.
WalkedChunks ==
    IF hashLoading = "lazy" THEN Range(SccNodes(sortedSccChunks, 1)) ELSE ChunkIds

\* C19: a turn for a file that is no asset (the synthetic file of a chunk
\* without files too) reports the warning and leaves hashByChunkId, the
\* registry and the assets without an entry for it; the walk raises only at
\* an asset that fails to be read, never at a missing one; and in a walk that
\* has not raised every file of every chunk of the walk has its turn, the
\* files that are assets being recorded.
C19_MissingAssetNonFatal ==
    lastOp = "processAssets" =>
        /\ raised \in {"", "SourceUnavailable"}
        /\ (\A f \in ChunkAssets : assets[f].readable) => raised = ""
        /\ \A j \in 1..Len(trace) : trace[j].missing =>
              /\ NoAssetWarning(trace[j].file) \in warnings
              /\ KnownAfter(j) = trace[j].known
              /\ trace[j].file \notin DOMAIN assetIntegrity
              /\ trace[j].file \notin Range2(inverseAssetIntegrity)
              /\ trace[j].file \notin DOMAIN assets
        /\ raised = "" =>
              \A id \in WalkedChunks : \A f \in Range(ChunkFiles(ChunkById(id))) :
                 /\ \E j \in 1..Len(trace) :
                       trace[j].chunk = id /\ trace[j].file = f
                 /\ f \in DOMAIN assets => f \in DOMAIN assetIntegrity

\* A walk has met the missing synthetic file of chunk 3 and the missing
\* style sheet of chunk 2, and has then handled 2.js and main.js.
C19_Witness ==
    /\ lastOp = "processAssets"
    /\ raised = ""
    /\ \E j3, j2, k2, k1 \in 1..Len(trace) :
          /\ j3 < k2 /\ j2 < k2 /\ k2 < k1
          /\ trace[j3].missing /\ trace[j3].file = SyntheticFile(ChunkById(3))
          /\ trace[j2].missing /\ trace[j2].file = TwoCss
          /\ ~trace[k2].missing /\ trace[k2].file = TwoJs
          /\ ~trace[k1].missing /\ trace[k1].file = MainJs
    /\ 3 \notin DOMAIN hashByChunkId
    /\ 2 \in DOMAIN hashByChunkId

\* C20: when beforeRuntimeRequirements has run, the forward map, the reverse
\* map and hashByChunkId are empty.
C20_ResetAtHashEmission ==
    lastOp = "beforeRuntimeRequirements" =>
        /\ assetIntegrity = EmptyMap
        /\ inverseAssetIntegrity = EmptyMap
        /\ hashByChunkId = EmptyMap

(***************************************************************************)
(* Coherence of the digests embedded in the output.                        *)
(***************************************************************************)
\* The positions of turn j where the walk put a digest in the place of a
\* placeholder.
Embedded(j) ==
    {i \in 1..Len(trace[j].before) :
        IsPlaceholder(trace[j].before[i]) /\ trace[j].after[i] # trace[j].before[i]}

\* C21: when an eager processAssets has walked an acyclic chunk graph, every
\* digest the walk put in the place of a placeholder of chunk c is the digest
\* of the asset of c as the compilation holds it at the end, and is the
\* registry entry of that asset, whatever the order of compilation.chunks
\* and of the children.
C21_EmbeddedDigestsCoherent ==
    (hashLoading = "eager" /\ Acyclic /\ lastOp = "processAssets" /\ raised = "") =>
        \A j \in Turns : \A i \in Embedded(j) :
            LET c == trace[j].before[i].id
            IN  /\ trace[j].after[i] =
                      computeIntegrity(hashFuncNames, assets[ChunkFile(c)].content)
                /\ Holds(assetIntegrity, ChunkFile(c), trace[j].after[i])

====
